---- MODULE Spec2Model ----
(***************************************************************************)
(* Points bot (src/main.py): three CSV stores (settings, points ledger,    *)
(* campaign registry), the slash commands, the reaction handlers and the   *)
(* periodic expiration sweeper.                                            *)
(*                                                                         *)
(* Text is modelled as a sequence of one-character strings, so that        *)
(* str.split, str.strip, int() and str() are computed as Python computes   *)
(* them.  A CSV file is the sequence of its lines; a line is the header    *)
(* line or a data row.  The set of existing files is the domain of `files`.*)
(* The bot runs on one asyncio event loop: a handler is interrupted only   *)
(* at an `await`, so every action below is the code between two awaits.    *)
(***************************************************************************)
EXTENDS Integers, Sequences, FiniteSets, TLC

\* ------------------------------------------------------------------ bounds
MaxTime == 2        \* the clock runs 0..MaxTime
MaxMessages == 2    \* message ids the platform mints for channel.send
MaxBalance == 2     \* commands and events keep |balance| <= MaxBalance
MaxOpen == 1        \* reactions present on the platform at one time

\* ------------------------------------------------------- text primitives
Digits == <<"0", "1", "2", "3", "4", "5", "6", "7", "8", "9">>

DigitSet == {Digits[i] : i \in 1..10}

DigitVal(c) == (CHOOSE i \in 1..10 : Digits[i] = c) - 1

RECURSIVE NatStr(_)
NatStr(n) == IF n < 10 THEN <<Digits[n + 1]>>
             ELSE NatStr(n \div 10) \o <<Digits[(n % 10) + 1]>>

\* str(n) for an int
Str(n) == IF n < 0 THEN <<"-">> \o NatStr(0 - n) ELSE NatStr(n)

RECURSIVE LStrip(_)
LStrip(s) == IF s # <<>> /\ Head(s) = " " THEN LStrip(Tail(s)) ELSE s

RECURSIVE RStrip(_)
RStrip(s) == IF s # <<>> /\ s[Len(s)] = " " THEN RStrip(SubSeq(s, 1, Len(s) - 1)) ELSE s

\* str.strip()
Strip(s) == RStrip(LStrip(s))

\* the text of an int literal without its sign, after strip
Unsigned(s) == LET t == Strip(s)
               IN IF t # <<>> /\ Head(t) \in {"-", "+"} THEN Tail(t) ELSE t

\* int(s) succeeds: optional blanks, optional sign, one or more digits
IsInt(s) == /\ Unsigned(s) # <<>>
            /\ \A i \in 1..Len(Unsigned(s)) : Unsigned(s)[i] \in DigitSet

RECURSIVE NatVal(_)
NatVal(s) == IF s = <<>> THEN 0
             ELSE 10 * NatVal(SubSeq(s, 1, Len(s) - 1)) + DigitVal(s[Len(s)])

\* int(s) where IsInt(s)
IntOf(s) == IF Head(Strip(s)) = "-" THEN 0 - NatVal(Unsigned(s)) ELSE NatVal(Unsigned(s))

\* str.split(sep): always at least one part
RECURSIVE Split(_, _)
Split(s, sep) ==
    IF \A i \in 1..Len(s) : s[i] # sep THEN <<s>>
    ELSE LET i == CHOOSE k \in 1..Len(s) : s[k] = sep /\ \A j \in 1..(k - 1) : s[j] # sep
         IN <<SubSeq(s, 1, i - 1)>> \o Split(SubSeq(s, i + 1, Len(s)), sep)

\* ------------------------------------------------------------ CSV files
POINTS_FILE == "data/points.csv"
SETTINGS_FILE == "data/settings.csv"
WPT_MESSAGES_FILE == "data/wpt_messages.csv"

AllFiles == {POINTS_FILE, SETTINGS_FILE, WPT_MESSAGES_FILE}

\* the header line csv.writer / DictWriter.writeheader writes
Header == [kind |-> "header"]

\* ensure_csv_files: every missing file is created with its header line
ensure_csv_files(fs) ==
    [p \in AllFiles |-> IF p \in DOMAIN fs THEN fs[p] ELSE <<Header>>]

\* csv.DictReader: the first line names the fields, the others are the rows
DictRows(lines) == IF lines = <<>> THEN <<>> ELSE Tail(lines)

\* row['field'] raises KeyError unless the first line is the header line
FieldsOK(lines) == lines # <<>> /\ Head(lines) = Header

\* replace the contents of file p
WriteFile(fs, p, lines) == [q \in (DOMAIN fs) \cup {p} |-> IF q = p THEN lines ELSE fs[q]]

\* index of the first element of keys equal to k, 0 when there is none
\* (`for row in reader: if <key of row> == k`)
FirstIndex(keys, k) ==
    IF \E i \in 1..Len(keys) : keys[i] = k
    THEN CHOOSE i \in 1..Len(keys) : keys[i] = k /\ \A j \in 1..(i - 1) : keys[j] # k
    ELSE 0

\* ------------------------------------------------------- points ledger
\* variant of get_user_points: the return is outside the `if`, the first row wins
get_user_points_first_row(fs, user_id) ==
    IF POINTS_FILE \notin DOMAIN fs
    THEN [result |-> 0, fs |-> ensure_csv_files(fs)]
    ELSE LET rows == DictRows(fs[POINTS_FILE])
         IN [result |-> IF rows = <<>> THEN 0 ELSE IntOf(rows[1].points), fs |-> fs]

\* get_user_points: [result, fs]
get_user_points(fs, user_id) ==
    IF POINTS_FILE \notin DOMAIN fs
    THEN [result |-> 0, fs |-> ensure_csv_files(fs)]
    ELSE LET rows == DictRows(fs[POINTS_FILE])
             i == FirstIndex([j \in 1..Len(rows) |-> IntOf(rows[j].user_id)], user_id)
         IN [result |-> IF i = 0 THEN 0 ELSE IntOf(rows[i].points), fs |-> fs]

\* variant of UpsertPoints: the matching row is not replaced, a row is appended
UpsertPointsAppends(rows, user_id, points) ==
    Append(rows, [kind |-> "row", user_id |-> Str(user_id), points |-> Str(points)])

\* lines 112-119: replace the points of the first matching row, or append a row
UpsertPoints(rows, user_id, points) ==
    LET i == FirstIndex([j \in 1..Len(rows) |-> IntOf(rows[j].user_id)], user_id)
    IN IF i # 0
       THEN [rows EXCEPT ![i] = [kind |-> "row", user_id |-> rows[i].user_id, points |-> Str(points)]]
       ELSE Append(rows, [kind |-> "row", user_id |-> Str(user_id), points |-> Str(points)])

\* update_user_points: the new fs
update_user_points(fs, user_id, points) ==
    LET g == IF POINTS_FILE \in DOMAIN fs THEN fs ELSE ensure_csv_files(fs)
    IN WriteFile(g, POINTS_FILE, <<Header>> \o UpsertPoints(DictRows(g[POINTS_FILE]), user_id, points))

\* ------------------------------------------------------- settings store
\* Python's None where a text is expected: no text contains this element
None == <<"None">>

\* get_setting: [result, fs]

get_setting(fs, key) ==
    IF SETTINGS_FILE \notin DOMAIN fs
    THEN [result |-> None, fs |-> ensure_csv_files(fs)]
    ELSE LET rows == DictRows(fs[SETTINGS_FILE])
             i == FirstIndex([j \in 1..Len(rows) |-> rows[j].key], key)
         IN [result |-> IF i = 0 THEN None ELSE rows[i].value, fs |-> fs]

\* variant of UpsertSetting: the matching row is not replaced, a row is appended
UpsertSettingAppends(rows, key, value) ==
    Append(rows, [kind |-> "row", key |-> key, value |-> value])

\* variant of UpsertSetting: the loop lacks the key test, the first row is overwritten
UpsertSettingFirstRow(rows, key, value) ==
    IF rows # <<>>
    THEN [rows EXCEPT ![1] = [kind |-> "row", key |-> rows[1].key, value |-> value]]
    ELSE Append(rows, [kind |-> "row", key |-> key, value |-> value])

\* lines 73-80: replace the value of the first row with the key, or append a row
UpsertSetting(rows, key, value) ==
    LET i == FirstIndex([j \in 1..Len(rows) |-> rows[j].key], key)
    IN IF i # 0
       THEN [rows EXCEPT ![i] = [kind |-> "row", key |-> key, value |-> value]]
       ELSE Append(rows, [kind |-> "row", key |-> key, value |-> value])

set_setting(fs, key, value) ==
    LET g == IF SETTINGS_FILE \in DOMAIN fs THEN fs ELSE ensure_csv_files(fs)
    IN WriteFile(g, SETTINGS_FILE, <<Header>> \o UpsertSetting(DictRows(g[SETTINGS_FILE]), key, value))

\* --------------------------------------------------- campaign registry
\* datetime.isoformat / datetime.fromisoformat; the clock counts whole units
isoformat(t) == Str(t)

fromisoformat(s) == IntOf(s)

\* the row createwpt writes (csv.writer turns every value into text)
RegistryRow(message_id, channel_id, expiration_time, emoji_points) ==
    [kind |-> "row", message_id |-> Str(message_id), channel_id |-> Str(channel_id),
     expiration |-> isoformat(expiration_time), emoji_points |-> emoji_points]

\* open(WPT_MESSAGES_FILE, 'a') + writerow: creates the file when it is missing
AppendRow(fs, row) ==
    WriteFile(fs, WPT_MESSAGES_FILE,
              (IF WPT_MESSAGES_FILE \in DOMAIN fs THEN fs[WPT_MESSAGES_FILE] ELSE <<>>) \o <<row>>)

\* reading the registry raises: FileNotFoundError, or KeyError on the first row
RegistryReadFails(fs) ==
    \/ WPT_MESSAGES_FILE \notin DOMAIN fs
    \/ DictRows(fs[WPT_MESSAGES_FILE]) # <<>> /\ ~FieldsOK(fs[WPT_MESSAGES_FILE])

RegistryRows(fs) == IF WPT_MESSAGES_FILE \in DOMAIN fs THEN DictRows(fs[WPT_MESSAGES_FILE]) ELSE <<>>

\* message_data = None
NoRow == [kind |-> "none"]

\* variant of FindMessage: the test of message_id is missing, the first row is taken
FindMessageFirstRow(fs, message_id) ==
    IF RegistryRows(fs) = <<>> THEN NoRow ELSE RegistryRows(fs)[1]

\* the first row of the registry whose message_id is the reacted message, or NoRow
FindMessage(fs, message_id) ==
    LET rows == RegistryRows(fs)
        i == FirstIndex([j \in 1..Len(rows) |-> IntOf(rows[j].message_id)], message_id)
    IN IF i = 0 THEN NoRow ELSE rows[i]

\* ------------------------------------------------- emoji:points schedules
\* dict assignment d[k] = v on a sequence of <<k, v>> in insertion order
DictSet(d, k, v) ==
    IF \E i \in 1..Len(d) : d[i][1] = k
    THEN [i \in 1..Len(d) |-> IF d[i][1] = k THEN <<k, v>> ELSE d[i]]
    ELSE Append(d, <<k, v>>)

DictHas(d, k) == \E i \in 1..Len(d) : d[i][1] = k

DictGet(d, k) == d[CHOOSE i \in 1..Len(d) : d[i][1] = k][2]

DictKeys(d) == [i \in 1..Len(d) |-> d[i][1]]

\* createwpt's loop accepts the pairs: each has one colon and int() points
PairsParse(pairs) ==
    \A i \in 1..Len(pairs) : Len(Split(pairs[i], ":")) = 2 /\ IsInt(Split(pairs[i], ":")[2])

RECURSIVE BuildEmojiDict(_, _)
BuildEmojiDict(pairs, d) ==
    IF pairs = <<>> THEN d
    ELSE LET kv == Split(Head(pairs), ":")
         IN BuildEmojiDict(Tail(pairs), DictSet(d, Strip(kv[1]), IntOf(kv[2])))

\* variant of ParseEmojiPoints: malformed pairs are skipped instead of raising
ParseEmojiPointsLenient(emoji_points) ==
    LET pairs == Split(emoji_points, ",")
        good == SelectSeq(pairs, LAMBDA pr : Len(Split(pr, ":")) = 2 /\ IsInt(Split(pr, ":")[2]))
    IN [ok |-> TRUE, dict |-> BuildEmojiDict(good, <<>>)]

\* createwpt lines 170-173: [ok, dict]
ParseEmojiPoints(emoji_points) ==
    LET pairs == Split(emoji_points, ",")
    IN IF PairsParse(pairs)
       THEN [ok |-> TRUE, dict |-> BuildEmojiDict(pairs, <<>>)]
       ELSE [ok |-> FALSE, dict |-> <<>>]

RECURSIVE BuildRawDict(_, _)
BuildRawDict(pairs, d) ==
    IF pairs = <<>> THEN d
    ELSE LET kv == Split(Head(pairs), ":")
         IN BuildRawDict(Tail(pairs), DictSet(d, kv[1], kv[2]))

\* the handlers' dict(pair.split(':') for pair in ...): [ok, dict], text values
HandlerDict(emoji_points) ==
    LET pairs == Split(emoji_points, ",")
    IN IF \A i \in 1..Len(pairs) : Len(Split(pairs[i], ":")) = 2
       THEN [ok |-> TRUE, dict |-> BuildRawDict(pairs, <<>>)]
       ELSE [ok |-> FALSE, dict |-> <<>>]

\* the points a reaction event is worth: [handled, points]
ReactionPoints(fs, message_id, emoji) ==
    LET message_data == IF RegistryReadFails(fs) THEN NoRow ELSE FindMessage(fs, message_id)
        hd == IF message_data = NoRow THEN [ok |-> FALSE, dict |-> <<>>]
              ELSE HandlerDict(message_data.emoji_points)
    IN IF hd.ok /\ DictHas(hd.dict, emoji) /\ IsInt(DictGet(hd.dict, emoji))
       THEN [handled |-> TRUE, points |-> IntOf(DictGet(hd.dict, emoji))]
       ELSE [handled |-> FALSE, points |-> 0]

\* variant of on_reaction_add: the test of user.bot is missing
on_reaction_add_counts_bots(fs, message_id, emoji, user, bot) ==
    LET rp == ReactionPoints(fs, message_id, emoji)
        cur == get_user_points(fs, user)
    IN IF ~rp.handled THEN fs
       ELSE update_user_points(cur.fs, user, cur.result + rp.points)

\* on_reaction_add, lines 315-341: the new fs
on_reaction_add(fs, message_id, emoji, user, bot) ==
    LET rp == ReactionPoints(fs, message_id, emoji)
        cur == get_user_points(fs, user)
    IN IF bot \/ ~rp.handled THEN fs
       ELSE update_user_points(cur.fs, user, cur.result + rp.points)

\* variant of on_reaction_remove: the points are added
on_reaction_remove_adds(fs, message_id, emoji, user, bot) ==
    LET rp == ReactionPoints(fs, message_id, emoji)
        cur == get_user_points(fs, user)
    IN IF bot \/ ~rp.handled THEN fs
       ELSE update_user_points(cur.fs, user, cur.result + rp.points)

\* on_reaction_remove, lines 345-369: the new fs
on_reaction_remove(fs, message_id, emoji, user, bot) ==
    LET rp == ReactionPoints(fs, message_id, emoji)
        cur == get_user_points(fs, user)
    IN IF bot \/ ~rp.handled THEN fs
       ELSE update_user_points(cur.fs, user, cur.result - rp.points)

\* ------------------------------------------------------------- role check
\* variant of has_required_role: any role of the invoker passes the check
has_required_role_any(fs, roles) ==
    LET s == get_setting(fs, "required_role")
    IN IF s.result = None \/ s.result = <<>> THEN [result |-> TRUE, fs |-> s.fs]
       ELSE [result |-> roles # {}, fs |-> s.fs]

\* has_required_role.predicate: [result, fs]; roles is the invoker's role ids
has_required_role(fs, roles) ==
    LET s == get_setting(fs, "required_role")
    IN IF s.result = None \/ s.result = <<>> THEN [result |-> TRUE, fs |-> s.fs]
       ELSE IF ~IsInt(s.result) THEN [result |-> FALSE, fs |-> s.fs]
       ELSE [result |-> IntOf(s.result) \in roles, fs |-> s.fs]

\* ------------------------------------------------------ expiration sweep
\* variant of IsExpired: strict comparison
IsExpiredStrict(row, t) == fromisoformat(row.expiration) < t

\* lines 380-385: a row is expired when expiration <= now
IsExpired(row, t) == fromisoformat(row.expiration) <= t

\* the loop of lines 380-383 from row i on
RECURSIVE ExpiredFrom(_, _, _)
ExpiredFrom(rows, i, t) ==
    IF i > Len(rows) THEN <<>>
    ELSE (IF IsExpired(rows[i], t)
          THEN <<<<IntOf(rows[i].message_id), IntOf(rows[i].channel_id)>>>>
          ELSE <<>>) \o ExpiredFrom(rows, i + 1, t)

\* line 383: (message_id, channel_id) of the expired rows, in file order
expired_messages(rows, t) == ExpiredFrom(rows, 1, t)

\* line 385: the other rows, as read
active_messages(rows, t) == SelectSeq(rows, LAMBDA row : ~IsExpired(row, t))

\* variant of RewriteRegistry: the file is opened for append
RewriteRegistryAppend(fs, active) == WriteFile(fs, WPT_MESSAGES_FILE, fs[WPT_MESSAGES_FILE] \o active)

\* variant of RewriteRegistry: the rewrite is skipped
RewriteRegistrySkipped(fs, active) == fs

\* lines 395-398: the registry is rewritten as the header and the active rows
RewriteRegistry(fs, active) == WriteFile(fs, WPT_MESSAGES_FILE, <<Header>> \o active)

\* ------------------------------------------------------------------ inputs
\* emoji_points texts given to createwpt:
\*   "a:1"  "a:1,b:2"  " a:2"  "a:2, a:1"  and the malformed  "a"  "a:1:2"  "a:x"
GoodEmojiPoints ==
    { <<"a", ":", "1">>,
      <<"a", ":", "1", ",", "b", ":", "2">>,
      <<" ", "a", ":", "2">>,
      <<"a", ":", "2", ",", " ", "a", ":", "1">> }

BadEmojiPoints ==
    { <<"a">>,
      <<"a", ":", "1", ":", "2">>,
      <<"a", ":", "x">> }

EmojiPointsInputs == GoodEmojiPoints \cup BadEmojiPoints

ExpirationHours == {0, 1}       \* the expiration argument, in clock units
ChannelIds == {1}
RoleIds == {1}
GateRoles == {1, 2}             \* role ids setrole is given when the gate is examined
Invokers == {{}, {1}}           \* the role ids an invoking member holds
Members == {1, 2}               \* user ids of people
BotUsers == {3}                 \* user ids with user.bot set
ReactionEmojis == {<<"a">>, <<"b">>}   \* str(reaction.emoji) of delivered events
PointsetValues == {-1, 2}
\* the keys of lines 133, 239, 272, 287 and one more for set_setting called directly
SettingKeys == {"required_role", "reason_channel", "locale"}
SettingValues == {<<"1">>, <<"2">>, <<>>}

\* ------------------------------------------------------------------- state
VARIABLES
    files,       \* path -> lines, for the paths that exist
    now,         \* datetime.datetime.now()
    posted,      \* ids of the messages that exist on the platform
    minted,      \* number of message ids the platform has handed out
    cw,          \* the createwpt invocation in flight, or the last one
    sw,          \* the check_expirations pass in flight, or the last one
    reply,       \* the last acknowledgment of pointset / setrole / setreasonchannel
    reactions,   \* reactions present on the platform, with what their add credited
    pairNet,     \* balance change of the last add + remove pair that completed
    expected,    \* per user: the balance the ledger operations so far should leave
    written,     \* users update_user_points has been called for
    persisted,   \* message ids whose record createwpt appended
    reported,    \* message ids a completed pass had in its expired list
    configured   \* per settings key: the value of the last set_setting call, or None

vars == <<files, now, posted, minted, cw, sw, reply, reactions, pairNet, expected, written, persisted, reported, configured>>

Users == Members \cup BotUsers

IdleCw == [pc |-> "idle", emoji_points |-> <<>>, emoji_dict |-> <<>>, expiration_time |-> 0,
           channel |-> 0, message_id |-> 0, todo |-> <<>>, ack |-> "none"]

IdleSw == [pc |-> "idle", now |-> 0, expired |-> <<>>, active |-> <<>>, i |-> 0, failed |-> {}]

\* state after `python main.py` has run ensure_csv_files() on an empty data directory
Init ==
    /\ files = ensure_csv_files(<<>>)
    /\ now = 0
    /\ posted = {}
    /\ minted = 0
    /\ cw = IdleCw
    /\ sw = IdleSw
    /\ reply = "none"
    /\ reactions = {}
    /\ pairNet = 0
    /\ expected = [u \in Users |-> 0]
    /\ written = {}
    /\ persisted = {}
    /\ reported = {}
    /\ configured = [k \in SettingKeys |-> None]

Balance(fs, u) == get_user_points(fs, u).result

RegistryIds(fs) == {IntOf(RegistryRows(fs)[i].message_id) : i \in 1..Len(RegistryRows(fs))}

\* ------------------------------------------------------------------- clock
Tick ==
    /\ now < MaxTime
    /\ now' = now + 1
    /\ UNCHANGED <<files, posted, minted, cw, sw, reply, reactions, pairNet, expected, written, persisted, reported, configured>>

\* --------------------------------------------------------------- createwpt
\* the invocation is over: its text, its message and its acknowledgment are kept
CwDone(c, ack) == [IdleCw EXCEPT !.emoji_points = c.emoji_points, !.message_id = c.message_id, !.ack = ack]

\* lines 159-195: role check, parse, expiration time, up to `await channel.send`;
\* ack "denied": the predicate of line 159 returned False, the callback is not
\* invoked and the bot sends nothing
createwpt_begin(roles, channel, emoji_points, expiration) ==
    LET gate == has_required_role(files, roles)
        parsed == ParseEmojiPoints(emoji_points)
    IN /\ cw.pc = "idle"
       /\ minted < MaxMessages
       /\ files' = gate.fs
       /\ cw' = IF ~gate.result THEN [IdleCw EXCEPT !.ack = "denied"]
                ELSE IF ~parsed.ok
                THEN [IdleCw EXCEPT !.emoji_points = emoji_points, !.ack = "error"]
                ELSE [IdleCw EXCEPT !.pc = "send", !.emoji_points = emoji_points,
                                    !.emoji_dict = parsed.dict, !.channel = channel,
                                    !.expiration_time = now + expiration]
       /\ UNCHANGED <<now, posted, minted, sw, reply, reactions, pairNet, expected, written, persisted, reported, configured>>

\* line 195 returns: the message exists and has a fresh id; or channel.send raised
createwpt_sent(ok) ==
    /\ cw.pc = "send"
    /\ IF ok
       THEN /\ minted' = minted + 1
            /\ posted' = posted \cup {minted + 1}
            /\ cw' = [cw EXCEPT !.pc = "react", !.message_id = minted + 1,
                                !.todo = DictKeys(cw.emoji_dict)]
       ELSE /\ cw' = CwDone(cw, "error")
            /\ UNCHANGED <<minted, posted>>
    /\ UNCHANGED <<files, now, sw, reply, reactions, pairNet, expected, written, persisted, reported, configured>>

\* lines 196-212: one add_reaction returns; after the last one the record is
\* appended and the invoker is acknowledged; lines 214-218 when it raised
createwpt_reacted(ok) ==
    /\ cw.pc = "react"
    /\ IF ~ok
       THEN /\ cw' = CwDone(cw, "error")
            /\ UNCHANGED <<files, persisted>>
       ELSE IF Len(cw.todo) > 1
       THEN /\ cw' = [cw EXCEPT !.todo = Tail(cw.todo)]
            /\ UNCHANGED <<files, persisted>>
       ELSE /\ files' = AppendRow(files, RegistryRow(cw.message_id, cw.channel,
                                                     cw.expiration_time, cw.emoji_points))
            /\ persisted' = persisted \cup {cw.message_id}
            /\ cw' = CwDone(cw, "created")
    /\ UNCHANGED <<now, posted, minted, sw, reply, reactions, pairNet, expected, written, reported, configured>>

\* ------------------------------------------------------- check_expirations
ExpiredIds(s) == {s.expired[i][1] : i \in 1..Len(s.expired)}

\* lines 392-393: `except: pass` - the failure is dropped, the loop goes on
DeleteFailed(s) == [s EXCEPT !.failed = s.failed \cup {s.expired[s.i][1]}]

\* the loop of lines 387-393 moves to the next expired message
NextExpired(s) == [s EXCEPT !.pc = "fetch_channel", !.i = s.i + 1]

\* the pass is over: only what later states need is kept
PassDone(s) == [s EXCEPT !.pc = "idle", !.active = <<>>, !.i = 0]

\* lines 374-386: read and partition; without expired rows the rewrite follows at once
check_expirations_begin ==
    /\ sw.pc = "idle"
    /\ IF RegistryReadFails(files)
       THEN UNCHANGED <<files, sw, reported>>
       ELSE LET rows == RegistryRows(files)
                s == [IdleSw EXCEPT !.now = now, !.expired = expired_messages(rows, now),
                                    !.active = active_messages(rows, now)]
            IN IF s.expired = <<>>
               THEN /\ files' = RewriteRegistry(files, s.active)
                    /\ sw' = PassDone(s)
                    /\ UNCHANGED reported
               ELSE /\ sw' = NextExpired(s)
                    /\ UNCHANGED <<files, reported>>
    /\ UNCHANGED <<now, posted, minted, cw, reply, reactions, pairNet, expected, written, persisted, configured>>

\* variant of SweepContinue: a failed deletion ends the pass before the rewrite
SweepContinueAborts(s) ==
    IF s.failed # {}
    THEN /\ sw' = PassDone(s)
         /\ UNCHANGED <<files, reported>>
    ELSE IF s.i < Len(s.expired)
    THEN /\ sw' = NextExpired(s)
         /\ UNCHANGED <<files, reported>>
    ELSE /\ files' = RewriteRegistry(files, s.active)
         /\ sw' = PassDone(s)
         /\ reported' = reported \cup ExpiredIds(s)

\* after the try of lines 388-393 for one message: next message, or lines 395-398
SweepContinue(s) ==
    IF s.i < Len(s.expired)
    THEN /\ sw' = NextExpired(s)
         /\ UNCHANGED <<files, reported>>
    ELSE /\ files' = RewriteRegistry(files, s.active)
         /\ sw' = PassDone(s)
         /\ reported' = reported \cup ExpiredIds(s)

\* line 389 returns or raises
sweep_fetch_channel(ok) ==
    /\ sw.pc = "fetch_channel"
    /\ IF ok
       THEN /\ sw' = [sw EXCEPT !.pc = "fetch_message"]
            /\ UNCHANGED <<files, reported>>
       ELSE SweepContinue(DeleteFailed(sw))
    /\ UNCHANGED <<now, posted, minted, cw, reply, reactions, pairNet, expected, written, persisted, configured>>

\* line 390 returns or raises
sweep_fetch_message(ok) ==
    /\ sw.pc = "fetch_message"
    /\ IF ok
       THEN /\ sw' = [sw EXCEPT !.pc = "delete"]
            /\ UNCHANGED <<files, reported>>
       ELSE SweepContinue(DeleteFailed(sw))
    /\ UNCHANGED <<now, posted, minted, cw, reply, reactions, pairNet, expected, written, persisted, configured>>

\* line 391 returns (the message and its reactions are gone) or raises
sweep_delete(ok) ==
    /\ sw.pc = "delete"
    /\ IF ok
       THEN /\ posted' = posted \ {sw.expired[sw.i][1]}
            /\ reactions' = {r \in reactions : r.message # sw.expired[sw.i][1]}
            /\ SweepContinue(sw)
       ELSE /\ SweepContinue(DeleteFailed(sw))
            /\ UNCHANGED <<posted, reactions>>
    /\ UNCHANGED <<now, minted, cw, reply, pairNet, expected, written, persisted, configured>>

\* --------------------------------------------------------- reaction events
OpenReaction(u, m, e) == {r \in reactions : r.user = u /\ r.message = m /\ r.emoji = e}

\* the platform delivers on_reaction_add(reaction, user)
reaction_add(u, m, e) ==
    LET fs == on_reaction_add(files, m, e, u, u \in BotUsers)
        credit == Balance(fs, u) - Balance(files, u)
    IN /\ m \in posted
       /\ OpenReaction(u, m, e) = {}
       /\ Cardinality(reactions) < MaxOpen
       /\ Balance(fs, u) \in (0 - MaxBalance)..MaxBalance
       /\ files' = fs
       /\ reactions' = reactions \cup {[user |-> u, message |-> m, emoji |-> e, credit |-> credit]}
       /\ expected' = [expected EXCEPT ![u] = @ + IF u \in BotUsers THEN 0
                                                  ELSE ReactionPoints(files, m, e).points]
       /\ written' = IF u \notin BotUsers /\ ReactionPoints(files, m, e).handled
                     THEN written \cup {u} ELSE written
       /\ UNCHANGED <<now, posted, minted, cw, sw, reply, pairNet, persisted, reported, configured>>

\* the platform delivers on_reaction_remove(reaction, user) for a reaction that is there
reaction_remove(u, m, e) ==
    LET fs == on_reaction_remove(files, m, e, u, u \in BotUsers)
        debit == Balance(fs, u) - Balance(files, u)
    IN /\ m \in posted
       /\ OpenReaction(u, m, e) # {}
       /\ Balance(fs, u) \in (0 - MaxBalance)..MaxBalance
       /\ files' = fs
       /\ reactions' = reactions \ OpenReaction(u, m, e)
       /\ pairNet' = (CHOOSE r \in OpenReaction(u, m, e) : TRUE).credit + debit
       /\ expected' = [expected EXCEPT ![u] = @ - IF u \in BotUsers THEN 0
                                                  ELSE ReactionPoints(files, m, e).points]
       /\ written' = IF u \notin BotUsers /\ ReactionPoints(files, m, e).handled
                     THEN written \cup {u} ELSE written
       /\ UNCHANGED <<now, posted, minted, cw, sw, reply, persisted, reported, configured>>

\* ---------------------------------------------------------------- commands
\* variant of PointsetReply: a failed audit post is dropped without a word
PointsetReplySilent(reason_channel_id, log_ok, followup_ok) == "updated"

\* what the invoker of pointset is sent, lines 239-266:
\*   "updated"  the acknowledgment of lines 257-260
\*   "warned"   the warning of lines 252-255, then the acknowledgment of lines 257-260
\*   "error"    the warning raised, lines 263-266 answer "Error adjusting points"
PointsetReply(reason_channel_id, log_ok, followup_ok) ==
    IF reason_channel_id = None \/ reason_channel_id = <<>> THEN "updated"
    ELSE IF log_ok /\ IsInt(reason_channel_id) THEN "updated"
    ELSE IF followup_ok THEN "warned" ELSE "error"

\* pointset, lines 226-266; log_ok: lines 242-250 did not raise;
\* followup_ok: the warning of lines 252-255 did not raise;
\* reply "denied": the predicate of line 226 returned False, nothing is sent
pointset(roles, user, value, log_ok, followup_ok) ==
    LET gate == has_required_role(files, roles)
        cur == get_user_points(gate.fs, user)
        new_points == cur.result + value
        upd == update_user_points(cur.fs, user, new_points)
        rc == get_setting(upd, "reason_channel")
    IN /\ new_points \in (0 - MaxBalance)..MaxBalance
       /\ IF ~gate.result
          THEN /\ files' = gate.fs
               /\ reply' = "denied"
               /\ UNCHANGED <<expected, written>>
          ELSE /\ files' = rc.fs
               /\ expected' = [expected EXCEPT ![user] = @ + value]
               /\ written' = written \cup {user}
               /\ reply' = PointsetReply(rc.result, log_ok, followup_ok)
       /\ UNCHANGED <<now, posted, minted, cw, sw, reactions, pairNet, persisted, reported, configured>>

\* setrole, lines 270-276
setrole(role) ==
    /\ files' = set_setting(files, "required_role", Str(role))
    /\ configured' = [configured EXCEPT !["required_role"] = Str(role)]
    /\ UNCHANGED <<now, posted, minted, cw, sw, reply, reactions, pairNet, expected, written, persisted, reported>>

\* setreasonchannel, lines 285-291
setreasonchannel(channel) ==
    /\ files' = set_setting(files, "reason_channel", Str(channel))
    /\ configured' = [configured EXCEPT !["reason_channel"] = Str(channel)]
    /\ UNCHANGED <<now, posted, minted, cw, sw, reply, reactions, pairNet, expected, written, persisted, reported>>

\* ------------------------------------------------------------ specification
Next ==
    \/ Tick
    \/ \E roles \in Invokers, channel \in ChannelIds, ep \in EmojiPointsInputs, h \in ExpirationHours :
          createwpt_begin(roles, channel, ep, h)
    \/ \E ok \in BOOLEAN : createwpt_sent(ok)
    \/ \E ok \in BOOLEAN : createwpt_reacted(ok)
    \/ check_expirations_begin
    \/ \E ok \in BOOLEAN : sweep_fetch_channel(ok)
    \/ \E ok \in BOOLEAN : sweep_fetch_message(ok)
    \/ \E ok \in BOOLEAN : sweep_delete(ok)
    \/ \E u \in Users, m \in 1..MaxMessages, e \in ReactionEmojis : reaction_add(u, m, e)
    \/ \E u \in Users, m \in 1..MaxMessages, e \in ReactionEmojis : reaction_remove(u, m, e)
    \/ \E roles \in Invokers, u \in Members, v \in PointsetValues, l \in BOOLEAN, f \in BOOLEAN :
          pointset(roles, u, v, l, f)
    \/ \E role \in RoleIds : setrole(role)
    \/ \E channel \in ChannelIds : setreasonchannel(channel)

Spec == Init /\ [][Next]_vars

\* The registry, the createwpt invocation, the sweep pass and the platform's
\* messages are written only by Tick, createwpt and check_expirations; the
\* other handlers never write them.  SpecRegistry is Spec restricted to those
\* actions, with one well-formed and every malformed emoji_points text.
RegistryEmojiPoints == {<<"a", ":", "1", ",", "b", ":", "2">>} \cup BadEmojiPoints

NextRegistry ==
    \/ Tick
    \/ \E channel \in ChannelIds, ep \in RegistryEmojiPoints, h \in ExpirationHours :
          createwpt_begin({}, channel, ep, h)
    \/ \E ok \in BOOLEAN : createwpt_sent(ok)
    \/ \E ok \in BOOLEAN : createwpt_reacted(ok)
    \/ check_expirations_begin
    \/ \E ok \in BOOLEAN : sweep_fetch_channel(ok)
    \/ \E ok \in BOOLEAN : sweep_fetch_message(ok)
    \/ \E ok \in BOOLEAN : sweep_delete(ok)

SpecRegistry == Init /\ [][NextRegistry]_vars

\* The ledger functions called directly, on a ledger file that exists or has
\* not been created yet: update_user_points with any user and total, and the
\* points command (lines 298-305), which only calls get_user_points.
LedgerValues == {-12, 0, 7}

call_update_user_points(u, n) ==
    /\ files' = update_user_points(files, u, n)
    /\ expected' = [expected EXCEPT ![u] = n]
    /\ written' = written \cup {u}
    /\ UNCHANGED <<now, posted, minted, cw, sw, reply, reactions, pairNet, persisted, reported, configured>>

points(u) ==
    /\ files' = get_user_points(files, u).fs
    /\ UNCHANGED <<now, posted, minted, cw, sw, reply, reactions, pairNet, expected, written, persisted, reported, configured>>

InitLedger ==
    /\ files \in {<<>>, ensure_csv_files(<<>>)}
    /\ now = 0 /\ posted = {} /\ minted = 0 /\ cw = IdleCw /\ sw = IdleSw /\ reply = "none"
    /\ reactions = {} /\ pairNet = 0 /\ expected = [u \in Users |-> 0] /\ written = {}
    /\ persisted = {} /\ reported = {} /\ configured = [k \in SettingKeys |-> None]

NextLedger ==
    \/ \E u \in Users, n \in LedgerValues : call_update_user_points(u, n)
    \/ \E u \in Users : points(u)

SpecLedger == InitLedger /\ [][NextLedger]_vars

\* The ledger is written only by pointset and the reaction handlers, and a
\* reaction is handled only on a message createwpt registered and the sweeper
\* has not pruned.  SpecPoints is Spec restricted to these operations at a
\* fixed time, with one emoji_points text, no required role, reactions by one
\* member with the campaign's emoji (pointset adjusts every member),
\* campaigns that the next pass finds expired, and platform calls that succeed
\* for createwpt and fail for the sweeper (the message stays, the record goes).
PointsEmojiPoints == {<<"a", ":", "1">>}

PointsEmojis == {<<"a">>}

Reactors == {1}

PointsHours == {0}

NextPoints ==
    \/ \E channel \in ChannelIds, ep \in PointsEmojiPoints, h \in PointsHours :
          createwpt_begin({}, channel, ep, h)
    \/ createwpt_sent(TRUE)
    \/ createwpt_reacted(TRUE)
    \/ check_expirations_begin
    \/ sweep_fetch_channel(FALSE)
    \/ \E u \in Reactors, m \in 1..MaxMessages, e \in PointsEmojis : reaction_add(u, m, e)
    \/ \E u \in Reactors, m \in 1..MaxMessages, e \in PointsEmojis : reaction_remove(u, m, e)
    \/ \E u \in Members, v \in PointsetValues : pointset({}, u, v, TRUE, TRUE)

SpecPoints == Init /\ [][NextPoints]_vars

\* one step of the sweeper task, whichever line it is at
check_expirations ==
    \/ check_expirations_begin
    \/ \E ok \in BOOLEAN : sweep_fetch_channel(ok)
    \/ \E ok \in BOOLEAN : sweep_fetch_message(ok)
    \/ \E ok \in BOOLEAN : sweep_delete(ok)

\* fairness the scheduling gives the sweeper: tasks.loop starts a pass every
\* five minutes (line 371) and every awaited platform call returns or raises
SweepFairness == WF_vars(check_expirations)

\* the registry operations when createwpt is given a well-formed text and its
\* platform calls succeed, and a fair sweeper
NextLive ==
    \/ Tick
    \/ \E channel \in ChannelIds, ep \in PointsEmojiPoints, h \in ExpirationHours :
          createwpt_begin({}, channel, ep, h)
    \/ createwpt_sent(TRUE)
    \/ createwpt_reacted(TRUE)
    \/ check_expirations

LiveRegistry == Init /\ [][NextLive]_vars /\ SweepFairness

\* ------------------------------------------------------------------ claims
RowExpiration(fs, m) == fromisoformat(FindMessage(fs, m).expiration)

\* C1: a pass run at `now` puts a record in its expired list iff the record's
\* expiration T satisfies T <= now; a record a completed pass had in its expired
\* list is not in the registry and is not in the expired list of a later pass.
C1_SweepClassifies ==
    /\ [][check_expirations_begin =>
            \A i \in 1..Len(RegistryRows(files)) :
                (IntOf(RegistryRows(files)[i].message_id) \in ExpiredIds(sw'))
                   <=> (fromisoformat(RegistryRows(files)[i].expiration) <= now)]_vars
    /\ [](\A m \in reported : m \notin RegistryIds(files)
                              /\ (sw.pc # "idle" => m \notin ExpiredIds(sw)))

\* a pass has reported a record, the registry keeps a record that was not expired
C1_Witness ==
    /\ sw.pc = "idle"
    /\ reported # {}
    /\ \E m \in RegistryIds(files) : RowExpiration(files, m) > sw.now /\ m < CHOOSE r \in reported : TRUE

\* C2: a record createwpt persisted is in the registry unless a sweep pass
\* classified it as expired (pass time at or after its expiration).
C2_OnlyExpiredLeave ==
    \A m \in persisted : m \in RegistryIds(files) \/ m \in reported \/ m \in ExpiredIds(sw)

\* C7: when a pass is over, none of the records it classified as expired is in
\* the registry, also when fetching or deleting some of their messages failed.
C7_PrunedDespiteFailure ==
    sw.pc = "idle" => \A m \in ExpiredIds(sw) : m \notin RegistryIds(files)

\* a pass over two expired records is done, one deletion failed, one succeeded
C7_Witness ==
    /\ sw.pc = "idle"
    /\ Cardinality(ExpiredIds(sw)) = 2
    /\ Cardinality(sw.failed) = 1
    /\ ExpiredIds(sw) \cap RegistryIds(files) = {}
    /\ ExpiredIds(sw) \subseteq persisted

\* C8: a createwpt invocation whose emoji_points is malformed ends at once with
\* the error acknowledgment; the registry, the platform's messages and the ids
\* handed out are the same as before, and no message belongs to the invocation.
C8_MalformedAborts ==
    [][(cw.pc = "idle" /\ cw' # cw /\ cw'.emoji_points \in BadEmojiPoints) =>
          /\ cw'.pc = "idle"
          /\ cw'.ack = "error"
          /\ cw'.message_id = 0
          /\ files' = files
          /\ posted' = posted
          /\ minted' = minted]_vars

\* a malformed invocation was refused while the registry held a record
C8_Witness ==
    /\ cw.pc = "idle"
    /\ cw.ack = "error"
    /\ cw.emoji_points \in BadEmojiPoints
    /\ RegistryRows(files) # <<>>

\* C9: with a fair sweeper, a persisted record whose expiration has been reached
\* is eventually absent from the registry, and a persisted record that is absent
\* stays absent.
C9_EventuallyRemoved ==
    /\ \A m \in 1..MaxMessages :
          (m \in RegistryIds(files) /\ RowExpiration(files, m) <= now) ~> (m \notin RegistryIds(files))
    /\ [][\A m \in persisted : m \notin RegistryIds(files) => m \notin RegistryIds(files')]_vars

\* a persisted record has been removed after its expiration
C9_Witness ==
    \E m \in persisted : m \notin RegistryIds(files) /\ m \in reported /\ sw.now < now

\* C10: no two rows of the registry have the same message_id.
C10_UniqueMessageId ==
    \A i, j \in 1..Len(RegistryRows(files)) :
        i # j => IntOf(RegistryRows(files)[i].message_id) # IntOf(RegistryRows(files)[j].message_id)

\* the registry holds two records
C10_Witness == Len(RegistryRows(files)) = 2 /\ sw.pc # "idle"


\* C3: from an empty ledger, every user's balance is the sum of the pointset
\* deltas applied to the user plus the values of the user's handled reaction-adds
\* minus the values of the user's handled reaction-removes.
C3_BalanceIsSumOfAdjustments == \A u \in Users : Balance(files, u) = expected[u]

\* both members hold a balance made of a pointset delta and a reaction value
C3_Witness ==
    /\ written = Members
    /\ \E r \in reactions : r.user = 1 /\ r.credit = 1
    /\ Balance(files, 1) = 2
    /\ Balance(files, 2) = -2

\* C4: an add followed by the remove of the same emoji by the same user on the
\* same message changes the user's balance by zero in total.
C4_AddRemoveNetZero == pairNet = 0

\* C5: get_user_points(u) is the total of the most recent update_user_points
\* call for u, and a call for one user leaves every other user's balance as it was.
C5_LastWriteWins ==
    /\ [](\A u \in written : Balance(files, u) = expected[u])
    /\ [][\A v \in Users : expected'[v] = expected[v] => Balance(files', v) = Balance(files, v)]_vars

\* every user has been written, with different totals, in an order other than by id
C5_Witness ==
    /\ written = Users
    /\ expected[1] = 7 /\ expected[2] = -12 /\ expected[3] = 0
    /\ IntOf(DictRows(files[POINTS_FILE])[1].user_id) = 3

LedgerIds(fs) ==
    IF POINTS_FILE \in DOMAIN fs
    THEN {IntOf(DictRows(fs[POINTS_FILE])[i].user_id) : i \in 1..Len(DictRows(fs[POINTS_FILE]))}
    ELSE {}

\* C6: for a user update_user_points was never called for, get_user_points
\* returns 0 and leaves the ledger without an entry for that user.
C6_AbsentUserIsZero ==
    \A u \in Users \ written :
        /\ get_user_points(files, u).result = 0
        /\ u \notin LedgerIds(get_user_points(files, u).fs)

\* the ledger holds entries with non-zero totals for other users only
C6_Witness ==
    /\ written = {1, 3}
    /\ LedgerIds(files) = {1, 3}
    /\ Balance(files, 1) = 7 /\ Balance(files, 3) = -12

\* The commands: setrole and setreasonchannel by anyone, pointset and createwpt
\* by an invoker without roles or with role 1, the audit post and the warning
\* succeeding or failing, createwpt's platform calls succeeding.
Targets == {1}                  \* the member pointset is asked to adjust

NextCommands ==
    \/ \E role \in GateRoles : setrole(role)
    \/ \E channel \in ChannelIds : setreasonchannel(channel)
    \/ \E roles \in Invokers, u \in Targets, v \in PointsetValues, l \in BOOLEAN, f \in BOOLEAN :
          pointset(roles, u, v, l, f)
    \/ \E roles \in Invokers, channel \in ChannelIds, ep \in PointsEmojiPoints, h \in PointsHours :
          createwpt_begin(roles, channel, ep, h)
    \/ createwpt_sent(TRUE)
    \/ createwpt_reacted(TRUE)

SpecCommands == Init /\ [][NextCommands]_vars

\* the invoker passes the gate as the claim states it: no required_role has been
\* set, or the invoker holds the role whose id was set last
Allowed(roles) ==
    \/ configured["required_role"] = None
    \/ IntOf(configured["required_role"]) \in roles

\* C11: pointset and createwpt run their body iff no required_role is stored or
\* the invoker holds the stored role; a refused invocation changes no file.
C11_GateDecides ==
    [][/\ \A roles \in Invokers, u \in Targets, v \in PointsetValues, l \in BOOLEAN, f \in BOOLEAN :
            (/\ cw' = cw /\ configured' = configured
             /\ (reply' = "denied" \/ expected'[u] = expected[u] + v)
             /\ pointset(roles, u, v, l, f)) =>
                IF Allowed(roles)
                THEN reply' # "denied" /\ Balance(files', u) = Balance(files, u) + v
                ELSE reply' = "denied" /\ files' = files
       /\ \A roles \in Invokers, channel \in ChannelIds, ep \in PointsEmojiPoints, h \in PointsHours :
            (cw' # cw /\ createwpt_begin(roles, channel, ep, h)) =>
                IF Allowed(roles)
                THEN cw'.pc = "send" /\ cw'.emoji_points = ep
                ELSE cw'.ack = "denied" /\ cw'.pc = "idle" /\ files' = files]_vars

\* role 2 is required; pointset was refused after it had run, createwpt was
\* refused after it had persisted a campaign
C11_Witness ==
    /\ configured["required_role"] = Str(2)
    /\ reply = "denied"
    /\ cw.ack = "denied"
    /\ written # {}
    /\ persisted # {}

\* C12 as stated: when the audit post fails, the ledger keeps current + delta,
\* the invoker is sent the normal acknowledgment and nothing else.
C12_AuditFailureSwallowed ==
    [][\A roles \in Invokers, u \in Targets, v \in PointsetValues, f \in BOOLEAN :
          (/\ configured["reason_channel"] # None /\ configured' = configured /\ cw' = cw
           /\ expected'[u] = expected[u] + v
           /\ Allowed(roles) /\ pointset(roles, u, v, FALSE, f)) =>
              Balance(files', u) = Balance(files, u) + v /\ reply' = "updated"]_vars

\* C12 amended: when the audit post fails, the ledger keeps current + delta and
\* the invoker is told: the warning and then the normal acknowledgment, or, when
\* the warning cannot be sent, the error acknowledgment.
C12_AuditFailureReported ==
    [][\A roles \in Invokers, u \in Targets, v \in PointsetValues, f \in BOOLEAN :
          (/\ configured["reason_channel"] # None /\ configured' = configured /\ cw' = cw
           /\ expected'[u] = expected[u] + v
           /\ Allowed(roles) /\ pointset(roles, u, v, FALSE, f)) =>
              /\ Balance(files', u) = Balance(files, u) + v
              /\ reply' = IF f THEN "warned" ELSE "error"]_vars

\* the audit post failed and the warning could not be sent: the ledger holds the
\* adjusted totals
C12_Witness ==
    /\ configured["reason_channel"] = Str(1)
    /\ reply = "error"
    /\ Balance(files, 1) = 1
    /\ written = {1}

\* The stores when some of the three files are missing: ensure_csv_files runs
\* only under __main__ (line 412) and the handlers expect FileNotFoundError
\* (lines 59, 86, 98, 125).  Every store is read and written: points,
\* pointset, setrole, createwpt, the reaction handlers and the sweeper.
InitAbsent ==
    /\ \E S \in SUBSET AllFiles : files = [p \in S |-> <<Header>>]
    /\ now = 0 /\ posted = {} /\ minted = 0 /\ cw = IdleCw /\ sw = IdleSw /\ reply = "none"
    /\ reactions = {} /\ pairNet = 0 /\ expected = [u \in Users |-> 0] /\ written = {}
    /\ persisted = {} /\ reported = {} /\ configured = [k \in SettingKeys |-> None]

NextAbsent ==
    \/ \E u \in Reactors : points(u)
    \/ \E role \in RoleIds : setrole(role)
    \/ \E u \in Reactors, v \in PointsetValues : pointset({1}, u, v, TRUE, TRUE)
    \/ \E channel \in ChannelIds, ep \in PointsEmojiPoints, h \in PointsHours :
          createwpt_begin({1}, channel, ep, h)
    \/ createwpt_sent(TRUE)
    \/ createwpt_reacted(TRUE)
    \/ check_expirations_begin
    \/ sweep_fetch_channel(FALSE)
    \/ \E u \in Reactors, m \in 1..MaxMessages, e \in PointsEmojis : reaction_add(u, m, e)
    \/ \E u \in Reactors, m \in 1..MaxMessages, e \in PointsEmojis : reaction_remove(u, m, e)

SpecAbsent == InitAbsent /\ [][NextAbsent]_vars

\* C13: an operation that finds a store's file absent creates it with its header
\* row and completes as on an empty store: the settings and the ledger answer
\* as the calls so far say, and a campaign createwpt persists is a record of the
\* registry that the reaction handlers find and the sweeper reads.
C13_AbsentStoreHeals ==
    /\ [][/\ \A p \in (DOMAIN files') \ (DOMAIN files) : FieldsOK(files'[p])
          /\ \A m \in persisted' \ persisted :
                /\ ~RegistryReadFails(files')
                /\ FindMessage(files', m) # NoRow
                /\ m \in RegistryIds(files')]_vars
    /\ [](\A k \in SettingKeys : get_setting(files, k).result = configured[k])
    /\ [](\A u \in Reactors : Balance(files, u) = expected[u])

\* The settings functions called directly, on a settings file that exists or
\* has not been created yet.
call_set_setting(k, v) ==
    /\ files' = set_setting(files, k, v)
    /\ configured' = [configured EXCEPT ![k] = v]
    /\ UNCHANGED <<now, posted, minted, cw, sw, reply, reactions, pairNet, expected, written, persisted, reported>>

call_get_setting(k) ==
    /\ files' = get_setting(files, k).fs
    /\ UNCHANGED <<now, posted, minted, cw, sw, reply, reactions, pairNet, expected, written, persisted, reported, configured>>

NextSettings ==
    \/ \E k \in SettingKeys, v \in SettingValues : call_set_setting(k, v)
    \/ \E k \in SettingKeys : call_get_setting(k)

SpecSettings == InitLedger /\ [][NextSettings]_vars

SettingRows(fs) == IF SETTINGS_FILE \in DOMAIN fs THEN DictRows(fs[SETTINGS_FILE]) ELSE <<>>

\* C14: get_setting(k) is the value of the most recent set_setting call for k
\* and None for a key never set; a call for one key leaves the value of every
\* other key as it was; a key that has a value never loses it.
C14_SettingLastWriteWins ==
    /\ [](\A k \in SettingKeys : get_setting(files, k).result = configured[k])
    /\ [][\A k \in SettingKeys :
            /\ configured'[k] = configured[k] => get_setting(files', k).result = get_setting(files, k).result
            /\ get_setting(files, k).result # None => get_setting(files', k).result # None]_vars

\* two keys hold different values, the key set first was set again, one key was never set
C14_Witness ==
    /\ configured["required_role"] = <<"2">>
    /\ configured["reason_channel"] = <<>>
    /\ configured["locale"] = None
    /\ Len(SettingRows(files)) = 2
    /\ SettingRows(files)[1] = [kind |-> "row", key |-> "reason_channel", value |-> <<>>]

\* The reaction handlers with every kind of event: a member reacts with an
\* emoji of the schedule or another one, a bot with an emoji of the schedule,
\* on a message whose record is not yet persisted, is in the registry, or was
\* pruned (the sweeper's fetch fails, so the message stays on the platform);
\* pointset gives a member who does not react a balance.
Bystanders == {2}

NextReactions ==
    \/ \E channel \in ChannelIds, ep \in PointsEmojiPoints, h \in PointsHours :
          createwpt_begin({}, channel, ep, h)
    \/ createwpt_sent(TRUE)
    \/ createwpt_reacted(TRUE)
    \/ check_expirations_begin
    \/ sweep_fetch_channel(FALSE)
    \/ \E u \in Reactors, m \in 1..MaxMessages, e \in ReactionEmojis : reaction_add(u, m, e)
    \/ \E u \in Reactors, m \in 1..MaxMessages, e \in ReactionEmojis : reaction_remove(u, m, e)
    \/ \E u \in BotUsers, m \in 1..MaxMessages, e \in PointsEmojis : reaction_add(u, m, e)
    \/ \E u \in BotUsers, m \in 1..MaxMessages, e \in PointsEmojis : reaction_remove(u, m, e)
    \/ \E u \in Bystanders : pointset({}, u, 2, TRUE, TRUE)

SpecReactions == Init /\ [][NextReactions]_vars

\* the emoji is a key of the schedule createwpt validated for the record of m
InSchedule(fs, m, e) ==
    /\ FindMessage(fs, m) # NoRow
    /\ DictHas(ParseEmojiPoints(FindMessage(fs, m).emoji_points).dict, e)

\* the reaction whose add or remove event the step delivers
Delivered(u, m, e) ==
    \E r \in (reactions' \ reactions) \cup (reactions \ reactions') :
        r.user = u /\ r.message = m /\ r.emoji = e

\* C15: a reaction event of a bot, on a message without a record, or with an
\* emoji that is not a key of the schedule leaves every balance as it was; any
\* reaction event leaves the balances of the other users, the registry and the
\* settings as they were.
C15_ReactionFrame ==
    [][\A u \in Users, m \in 1..MaxMessages, e \in ReactionEmojis :
          (Delivered(u, m, e) /\ (reaction_add(u, m, e) \/ reaction_remove(u, m, e))) =>
              /\ (u \in BotUsers \/ m \notin RegistryIds(files) \/ ~InSchedule(files, m, e)) =>
                     \A w \in Users : Balance(files', w) = Balance(files, w)
              /\ \A w \in Users \ {u} : Balance(files', w) = Balance(files, w)
              /\ files'[WPT_MESSAGES_FILE] = files[WPT_MESSAGES_FILE]
              /\ files'[SETTINGS_FILE] = files[SETTINGS_FILE]]_vars

\* a bot's reaction with a scheduled emoji is on a registered message and was
\* credited nothing, after a member's reaction was credited
C15_Witness ==
    /\ \E r \in reactions : /\ r.user \in BotUsers
                             /\ InSchedule(files, r.message, r.emoji)
                             /\ r.credit = 0
    /\ Balance(files, 1) = 1
    /\ Balance(files, 2) = 2
    /\ LedgerIds(files) = {1, 2}

\* createwpt with every well-formed emoji_points text and platform calls that
\* succeed, and a member reacting to the registered messages.
NextSchedule ==
    \/ \E channel \in ChannelIds, ep \in GoodEmojiPoints, h \in PointsHours :
          createwpt_begin({}, channel, ep, h)
    \/ createwpt_sent(TRUE)
    \/ createwpt_reacted(TRUE)
    \/ \E u \in Reactors, m \in 1..MaxMessages, e \in ReactionEmojis : reaction_add(u, m, e)
    \/ \E u \in Reactors, m \in 1..MaxMessages, e \in ReactionEmojis : reaction_remove(u, m, e)

SpecSchedule == Init /\ [][NextSchedule]_vars

KeySet(d) == {d[i][1] : i \in 1..Len(d)}

\* C16: when createwpt persists a record, the schedule the handlers parse from
\* it has the keys and the integer values of the schedule createwpt validated,
\* displayed and attached; a member's reaction-add with an emoji of the validated
\* schedule on a registered message is credited the displayed points.
C16_ScheduleRoundTrip ==
    [][/\ \A m \in persisted' \ persisted :
            LET hd == HandlerDict(FindMessage(files', m).emoji_points)
            IN /\ hd.ok
               /\ KeySet(hd.dict) = KeySet(cw.emoji_dict)
               /\ \A k \in KeySet(cw.emoji_dict) :
                     /\ IsInt(DictGet(hd.dict, k))
                     /\ IntOf(DictGet(hd.dict, k)) = DictGet(cw.emoji_dict, k)
       /\ \A u \in Reactors, m \in 1..MaxMessages, e \in ReactionEmojis :
            (Delivered(u, m, e) /\ reaction_add(u, m, e) /\ InSchedule(files, m, e)) =>
                Balance(files', u) = Balance(files, u)
                    + DictGet(ParseEmojiPoints(FindMessage(files, m).emoji_points).dict, e)]_vars

\* Campaigns that expire at once or one clock unit later, at a fixed time: a
\* member reacts with the campaign's emoji before the expiration (campaigns of
\* one unit), after it (campaigns of zero units) and after the pruning; the
\* sweeper's fetch fails, so that a pruned campaign's message stays.
NextExpiry ==
    \/ \E channel \in ChannelIds, ep \in PointsEmojiPoints, h \in ExpirationHours :
          createwpt_begin({}, channel, ep, h)
    \/ createwpt_sent(TRUE)
    \/ createwpt_reacted(TRUE)
    \/ check_expirations_begin
    \/ sweep_fetch_channel(FALSE)
    \/ \E u \in Reactors, m \in 1..MaxMessages, e \in PointsEmojis : reaction_add(u, m, e)
    \/ \E u \in Reactors, m \in 1..MaxMessages, e \in PointsEmojis : reaction_remove(u, m, e)

SpecExpiry == Init /\ [][NextExpiry]_vars

\* C17: a reaction event on a message whose record a pass has pruned leaves
\* every balance as it was; an event with the campaign's emoji changes the
\* member's balance, by the scheduled points, exactly when the record is in the
\* registry, whether or not its expiration has been reached.
C17_AwardedWhileRegistered ==
    [][\A u \in Reactors, m \in 1..MaxMessages, e \in PointsEmojis :
          (Delivered(u, m, e) /\ (reaction_add(u, m, e) \/ reaction_remove(u, m, e))) =>
              /\ m \in reported => \A w \in Users : Balance(files', w) = Balance(files, w)
              /\ (Balance(files', u) # Balance(files, u)) <=> (m \in RegistryIds(files))
              /\ m \in RegistryIds(files) =>
                     Balance(files', u) - Balance(files, u)
                         = IF reactions \subseteq reactions' THEN 1 ELSE -1]_vars

\* the removal of a credited reaction came after the pruning and revoked nothing;
\* a reaction added after the expiration of a record still in the registry was credited
C17_Witness ==
    /\ pairNet = 1
    /\ 1 \in reported
    /\ \E r \in reactions : /\ r.message \in RegistryIds(files)
                             /\ RowExpiration(files, r.message) <= now
                             /\ r.credit = 1

\* Every operation that writes the ledger or the settings, from stores that hold
\* only their header rows: update_user_points and set_setting called directly,
\* pointset, setrole, setreasonchannel and the reaction events on registered
\* messages.  Every setting is given the value "1", so that the invoker with
\* role 1 passes the gate and channel 1 is the logging channel.
StoreValues == {<<"1">>}

NextStores ==
    \/ \E u \in Bystanders, n \in LedgerValues : call_update_user_points(u, n)
    \/ \E k \in SettingKeys, v \in StoreValues : call_set_setting(k, v)
    \/ \E u \in Targets, v \in PointsetValues, l \in BOOLEAN : pointset({1}, u, v, l, TRUE)
    \/ \E role \in RoleIds : setrole(role)
    \/ \E channel \in ChannelIds : setreasonchannel(channel)
    \/ \E channel \in ChannelIds, ep \in PointsEmojiPoints, h \in PointsHours :
          createwpt_begin({1}, channel, ep, h)
    \/ createwpt_sent(TRUE)
    \/ createwpt_reacted(TRUE)
    \/ \E u \in Reactors, m \in 1..MaxMessages, e \in PointsEmojis : reaction_add(u, m, e)
    \/ \E u \in Reactors, m \in 1..MaxMessages, e \in PointsEmojis : reaction_remove(u, m, e)

SpecStores == Init /\ [][NextStores]_vars

LedgerRows(fs) == IF POINTS_FILE \in DOMAIN fs THEN DictRows(fs[POINTS_FILE]) ELSE <<>>

\* C18: no two rows of the ledger have the same user_id and no two rows of the
\* settings have the same key.
C18_OneEntryPerKey ==
    /\ \A i, j \in 1..Len(LedgerRows(files)) :
          i # j => IntOf(LedgerRows(files)[i].user_id) # IntOf(LedgerRows(files)[j].user_id)
    /\ \A i, j \in 1..Len(SettingRows(files)) :
          i # j => SettingRows(files)[i].key # SettingRows(files)[j].key

\* both stores hold several entries, written by the direct calls, by the
\* commands and by a reaction, each more than once
C18_Witness ==
    /\ Len(LedgerRows(files)) = 2
    /\ Len(SettingRows(files)) = 3
    /\ reply = "warned"
    /\ expected[2] = 7
    /\ expected[1] = 2
    /\ \E r \in reactions : r.user = 1 /\ r.credit = 1

====
